---- MODULE Spec2Model ----
(***************************************************************************)
(* Model of the ETABS / SAP2000 wrapper: connection management             *)
(* (core/connection.py, client.py), the client facade (core/base_client.py)*)
(* and table retrieval (results/tables.py).                                *)
(*                                                                         *)
(* The vendor application is an external collaborator.  Its state is the   *)
(* database of the open model (db), the load cases and combinations that   *)
(* are selected (selCases, selCombos) and the set of running processes     *)
(* (running).  Every wrapper operation is synchronous and single-threaded, *)
(* so one action models one whole call: it records the vendor calls it     *)
(* issued (calls) and how it ended (result).                               *)
(***************************************************************************)
EXTENDS Integers, Sequences, FiniteSets, TLC

VARIABLES db, selCases, selCombos, running, op, calls, result

vars == <<db, selCases, selCombos, running, op, calls, result>>

----------------------------------------------------------------------------
(* Bounds of the model.                                                    *)

MaxRows == 2
MaxCols == 2
MaxFlat == 4
MaxTables == 2
MaxRet == 2

----------------------------------------------------------------------------
(* Values.                                                                 *)

\* The four table keys the typed operations ask for, and one other key.
FramesKey == "Element Forces - Frames"
JointsKey == "Joint Displacements"
ReactionsKey == "Base Reactions"
BeamsKey == "Element Forces - Beams"
TableKeys == {FramesKey, JointsKey, ReactionsKey, BeamsKey, "Story Drifts"}

\* A fixed order of the keys, to list a set of keys as the vendor's array.
KeyOrder == <<FramesKey, JointsKey, ReactionsKey, BeamsKey, "Story Drifts">>

GroupNames == {"", "Columns"}

\* Column (field) keys the vendor may include in a table.
ColNames == {"Frame", "Joint", "FX", "OutputCase"}

LoadCases == {"DEAD", "LIVE"}
LoadCombos == {"COMB1"}

Apps == {"ETABS", "SAP2000"}

\* Python's None for an optional list argument, and a given list.
None == [isNone |-> TRUE, list |-> <<>>]
Some(l) == [isNone |-> FALSE, list |-> l]

\* Strings are sequences of characters, so that parsing is computed.
Digits == {"0", "1", "2", "3", "4", "5", "6", "7", "8", "9"}
DigitVal == ("0" :> 0) @@ ("1" :> 1) @@ ("2" :> 2) @@ ("3" :> 3) @@ ("4" :> 4)
            @@ ("5" :> 5) @@ ("6" :> 6) @@ ("7" :> 7) @@ ("8" :> 8) @@ ("9" :> 9)

\* Table cells.  k is the kind of value: "str" (the vendor's text, in s),
\* "none" (a missing value), "int" or "float" (a number: v holds it in
\* tenths, inf is the sign of an infinity or 0).
StrCell(s) == [k |-> "str", s |-> s, v |-> 0, inf |-> 0]
NoneCell == [k |-> "none", s |-> <<>>, v |-> 0, inf |-> 0]
NumCell(kind, v, inf) == [k |-> kind, s |-> <<>>, v |-> v, inf |-> inf]

\* Vendor texts: a label, an integer, a negative fraction, an infinity.
LabelText == <<"B", "1">>
IntText == <<"7">>
FracText == <<"-", "2", ".", "5">>
InfText == <<"i", "n", "f">>
Entries == {LabelText, IntText, FracText, InfText}
ShapeEntries == {LabelText, IntText}

\* All sequences over S of length at most n.
SeqsUpTo(S, n) == UNION {[1..m -> S] : m \in 0..n}

IsDistinct(s) == \A i, j \in 1..Len(s) : i # j => s[i] # s[j]

Min(a, b) == IF a < b THEN a ELSE b

RECURSIVE Widest(_)
Widest(ss) == IF ss = <<>> THEN 0
              ELSE LET m == Widest(Tail(ss))
                   IN IF Len(Head(ss)) > m THEN Len(Head(ss)) ELSE m

----------------------------------------------------------------------------
(* Outcomes of a call, exceptions and their messages.                      *)

\* A message: its template (text), the table named in it (key, a set), the
\* template of the wrapped cause, the table named in the cause and the
\* table count stated in it (count, a set).
Msg(text, key, cause, causeKey, count) ==
    [text |-> text, key |-> key, cause |-> cause, causeKey |-> causeKey, count |-> count]
NoMsg == Msg("", {}, "", {}, {})

EmptyDF == [columns |-> <<>>, rows |-> <<>>]
NoHandle == ""

Return(df) == [kind |-> "return", exc |-> "", msg |-> NoMsg, df |-> df, handle |-> NoHandle,
     value |-> ""]
ReturnHandle(h) == [kind |-> "return", exc |-> "", msg |-> NoMsg, df |-> EmptyDF, handle |-> h,
     value |-> ""]
Raise(exc, msg) == [kind |-> "raise", exc |-> exc, msg |-> msg, df |-> EmptyDF, handle |-> NoHandle,
     value |-> ""]
\* The Python value returned by an operation that returns True or False.
ReturnValue(v) ==
    [kind |-> "return", exc |-> "", msg |-> NoMsg, df |-> EmptyDF, handle |-> NoHandle,
     value |-> v]
NoResult == [kind |-> "none", exc |-> "", msg |-> NoMsg, df |-> EmptyDF, handle |-> NoHandle,
     value |-> ""]

\* A vendor or automation call, as logged.
Call(name, key, group, list) ==
    [name |-> name, key |-> key, group |-> group, list |-> list, ret |-> 0, raised |-> ""]

\* The call that raised exc instead of returning.
Raised(call, exc) == [call EXCEPT !.raised = exc]

\* The call that returned the code ret.
Returned(call, ret) == [call EXCEPT !.ret = ret]

----------------------------------------------------------------------------
(* The vendor's database-table interface, as the automation layer returns  *)
(* it: the out-parameters in order, then the return code.                  *)

\* DatabaseTables.GetAvailableTables():
\*   <<NumberTables, TableKey, TableName, ImportType, ret>>
GetAvailableTables(d) ==
    <<Len(d.TableKey), d.TableKey, d.TableKey, [i \in 1..Len(d.TableKey) |-> 0], 0>>

\* DatabaseTables.GetTableForDisplayArray(TableKey, GroupName):
\*   <<FieldKeyList, TableVersion, FieldsKeysIncluded, NumberRecords, TableData, ret>>
GetTableForDisplayArray(d, table_key, group_name) ==
    <<<<>>, 1, d.FieldsKeysIncluded, d.NumberRecords, d.TableData, 0>>

----------------------------------------------------------------------------
(* numpy.array_split and pandas.DataFrame, as _retrieve_table_data uses    *)
(* them.                                                                   *)

\* Sections of n items each (the count taken for a section size).
array_split_BySize(ary, n) ==
    [i \in 1..((Len(ary) + n - 1) \div n) |->
        SubSeq(ary, (i - 1) * n + 1, Min(i * n, Len(ary)))]

\* Sections taken with a stride of n (column-major).
array_split_Strided(ary, n) ==
    [i \in 1..n |-> [j \in 1..(Len(ary) \div n) |-> ary[(j - 1) * n + i]]]

\* np.array_split(ary, n), n > 0: n sections; with Neach, extras =
\* divmod(len(ary), n) the first `extras` sections hold Neach + 1 items and
\* the others Neach, in order.
array_split(ary, n) ==
    LET Neach == Len(ary) \div n
        extras == Len(ary) % n
        start(i) == (i - 1) * Neach + Min(i - 1, extras)
        size(i) == IF i <= extras THEN Neach + 1 ELSE Neach
    IN [i \in 1..n |-> SubSeq(ary, start(i) + 1, start(i) + size(i))]

\* Rows shorter than the widest are dropped instead of padded.
DataFrame_DropsShort(vals, cols) ==
    LET width == Widest(vals)
        full == SelectSeq(vals, LAMBDA v : Len(v) = width)
    IN IF Len(cols) # width
       THEN [ok |-> FALSE, df |-> EmptyDF]
       ELSE [ok |-> TRUE,
             df |-> [columns |-> cols,
                     rows |-> [i \in 1..Len(full) |->
                                 [j \in 1..width |-> StrCell(full[i][j])]]]]

\* pd.DataFrame(vals, columns=cols) for a non-empty list of 1-d arrays: the
\* rows are laid out in an object array as wide as the longest row, shorter
\* rows end in missing values, and the number of column labels must equal
\* that width (ValueError otherwise).
DataFrame(vals, cols) ==
    LET width == Widest(vals)
    IN IF Len(cols) # width
       THEN [ok |-> FALSE, df |-> EmptyDF]
       ELSE [ok |-> TRUE,
             df |-> [columns |-> cols,
                     rows |-> [i \in 1..Len(vals) |->
                                 [j \in 1..width |->
                                    IF j <= Len(vals[i]) THEN StrCell(vals[i][j])
                                    ELSE NoneCell]]]]

NRows(df) == Len(df.rows)
NColumns(df) == Len(df.columns)
HasColumn(df, col) == \E j \in 1..Len(df.columns) : df.columns[j] = col
ColumnIndex(df, col) == CHOOSE j \in 1..Len(df.columns) : df.columns[j] = col

----------------------------------------------------------------------------
(* pd.to_numeric(..., errors="coerce").fillna(0).astype(int | float)       *)

IsDigits(s) == Len(s) > 0 /\ \A i \in 1..Len(s) : s[i] \in Digits

RECURSIVE UIntOf(_)
UIntOf(s) == IF s = <<>> THEN 0
             ELSE 10 * UIntOf(SubSeq(s, 1, Len(s) - 1)) + DigitVal[s[Len(s)]]

NaN == [nan |-> TRUE, v |-> 0, inf |-> 0]
Number(v, inf) == [nan |-> FALSE, v |-> v, inf |-> inf]

\* An unsigned numeric literal: digits, digits "." digit, or "inf".  Values
\* are held in tenths.  Any other text does not parse.
ParseUnsigned(s) ==
    IF IsDigits(s) THEN Number(10 * UIntOf(s), 0)
    ELSE IF s = InfText THEN Number(0, 1)
    ELSE IF Len(s) >= 3 /\ s[Len(s) - 1] = "." /\ s[Len(s)] \in Digits
            /\ IsDigits(SubSeq(s, 1, Len(s) - 2))
         THEN Number(10 * UIntOf(SubSeq(s, 1, Len(s) - 2)) + DigitVal[s[Len(s)]], 0)
    ELSE NaN

Negate(x) == IF x.nan THEN x ELSE Number(0 - x.v, 0 - x.inf)

\* pd.to_numeric(errors="coerce") on one entry: text that is not a number,
\* and a missing value, become NaN.
to_numeric(cell) ==
    IF cell.k = "none" THEN NaN
    ELSE IF cell.k # "str" THEN Number(cell.v, cell.inf)
    ELSE IF cell.s # <<>> /\ cell.s[1] = "-" THEN Negate(ParseUnsigned(Tail(cell.s)))
    ELSE IF cell.s # <<>> /\ cell.s[1] = "+" THEN ParseUnsigned(Tail(cell.s))
    ELSE ParseUnsigned(cell.s)

fillna(x, value) == IF x.nan THEN Number(value, 0) ELSE x

\* Truncation toward zero of a value held in tenths.
Trunc(v) == IF v >= 0 THEN (v \div 10) * 10 ELSE 0 - (((0 - v) \div 10) * 10)

\* Series.astype(int) refuses a column with a non-finite value.
CanCastInt(col) == \A i \in 1..Len(col) : col[i].inf = 0

\* The column `j` of the rows, coerced: [ok, col].
CoerceColumn(rows, j, kind) ==
    LET nums == [i \in 1..Len(rows) |-> fillna(to_numeric(rows[i][j]), 0)]
    IN IF kind = "int"
       THEN [ok |-> CanCastInt(nums),
             col |-> [i \in 1..Len(rows) |-> NumCell("int", Trunc(nums[i].v), 0)]]
       ELSE [ok |-> TRUE,
             col |-> [i \in 1..Len(rows) |-> NumCell("float", nums[i].v, nums[i].inf)]]

\* df[col] = ... : the column replaced in place.
SetColumn(df, j, col) ==
    [df EXCEPT !.rows = [i \in 1..Len(df.rows) |-> [df.rows[i] EXCEPT ![j] = col[i]]]]

\* The coercion block of a typed operation: the columns of `names` that are
\* present are coerced in order; the first failing cast raises ValueError.
RECURSIVE CoerceColumns(_, _, _)
CoerceColumns(df, names, kinds) ==
    IF names = <<>> THEN [ok |-> TRUE, df |-> df]
    ELSE IF ~HasColumn(df, Head(names)) THEN CoerceColumns(df, Tail(names), Tail(kinds))
    ELSE LET j == ColumnIndex(df, Head(names))
             c == CoerceColumn(df.rows, j, Head(kinds))
         IN IF ~c.ok THEN [ok |-> FALSE, df |-> df]
            ELSE CoerceColumns(SetColumn(df, j, c.col), Tail(names), Tail(kinds))

----------------------------------------------------------------------------
(* results/tables.py                                                       *)

Range(s) == {s[i] : i \in 1..Len(s)}

\* The vendor calls of table retrieval; `fault` names the one that raises
\* (a COM failure) when it is issued, or is "none".
VendorCalls == {"DeselectAllCasesAndCombosForOutput", "SetLoadCasesSelectedForDisplay",
                "SetLoadCombinationsSelectedForDisplay", "GetAvailableTables",
                "GetTableForDisplayArray"}
Faults == {"none"} \cup VendorCalls

NoTablesText == "No tables were found in the open model."
NotFoundText == "Failed to retrieve '{}'. It was not found amongst the {} tables."
WrapText == "Failed to retrieve table '{}': {}"

Wrap_WithoutCause(table_key, cause, causeKey, count) ==
    Raise("RuntimeError", Msg(WrapText, {table_key}, "", {}, {}))

\* Without the except clause: the cause leaves as it was raised.
Wrap_Reraises(table_key, cause, causeKey, count) ==
    IF cause \in {"COMError", "ValueError"}
    THEN Raise(cause, NoMsg)
    ELSE Raise("RuntimeError", Msg(cause, causeKey, "", {}, count))

\* The except clause of _retrieve_table_data: any exception is raised again
\* as a RuntimeError that names table_key and carries the cause's text.
Wrap(table_key, cause, causeKey, count) ==
    Raise("RuntimeError", Msg(WrapText, {table_key}, cause, causeKey, count))

\* No test of the name against the tables enumerated.
NotAvailable_Untested(table_key, table_keys) == FALSE

\* `if table_key not in table_keys`
NotAvailable(table_key, table_keys) == table_key \notin Range(table_keys)

NoRecords_ZeroOnly(no_of_rows) == no_of_rows = 0

\* `if no_of_rows <= 0`
NoRecords(no_of_rows) == no_of_rows <= 0

\* TableResults._retrieve_table_data: [calls, out].
retrieve_table_data(d, table_key, group_name, fault) ==
    LET c1 == <<Call("GetAvailableTables", "", "", <<>>)>>
        avail == GetAvailableTables(d)
        no_tables == avail[1]
        table_keys == avail[2]
        c2 == Append(c1, Call("GetTableForDisplayArray", table_key, group_name, <<>>))
        table == GetTableForDisplayArray(d, table_key, group_name)
        cols == table[3]
        no_of_rows == table[4]
        vals == array_split(table[5], no_of_rows)
        frame == DataFrame(vals, cols)
    IN IF fault = "GetAvailableTables"
       THEN [calls |-> <<Raised(c1[1], "COMError")>>,
             out |-> Wrap(table_key, "COMError", {}, {})]
       ELSE IF no_tables = 0
       THEN [calls |-> c1, out |-> Wrap(table_key, NoTablesText, {}, {})]
       ELSE IF NotAvailable(table_key, table_keys)
       THEN [calls |-> c1, out |-> Wrap(table_key, NotFoundText, {table_key}, {no_tables})]
       ELSE IF fault = "GetTableForDisplayArray"
       THEN [calls |-> Append(c1, Raised(c2[2], "COMError")),
             out |-> Wrap(table_key, "COMError", {}, {})]
       ELSE IF NoRecords(no_of_rows)
       THEN [calls |-> c2, out |-> Return(EmptyDF)]
       ELSE IF ~frame.ok
       THEN [calls |-> c2, out |-> Wrap(table_key, "ValueError", {}, {})]
       ELSE [calls |-> c2, out |-> Return(frame.df)]

\* The call made: its name and arguments (app: the application a connection
\* function is about).
Operation(name, table_key, group_name, load_cases, load_combinations) ==
    [name |-> name, app |-> "", table_key |-> table_key, group_name |-> group_name,
     load_cases |-> load_cases, load_combinations |-> load_combinations]
ConnOperation(name, app) ==
    [name |-> name, app |-> app, table_key |-> "", group_name |-> "",
     load_cases |-> None, load_combinations |-> None]
NoOperation == Operation("", "", "", None, None)

\* TableResults.get_table
get_table(table_key, group_name, fault) ==
    LET r == retrieve_table_data(db, table_key, group_name, fault)
    IN /\ op' = Operation("get_table", table_key, group_name, None, None)
       /\ calls' = r.calls
       /\ result' = r.out
       /\ UNCHANGED <<db, selCases, selCombos, running>>

Truthy_Inverted(x) == x.isNone \/ Len(x.list) = 0

\* Python's truth value of an optional list: None and [] are false.
\* The test that takes every list, the empty one too, for a filter given.
Truthy_NotNone(x) == ~x.isNone

Truthy(x) == ~x.isNone /\ Len(x.list) > 0

\* The first lines of every typed operation: deselect everything, then
\* select the load cases and the combinations given: [calls, ok, cases,
\* combos], the calls issued, whether none raised, and the selection left.
SelectForOutput(cases, combos, load_cases, load_combinations, fault) ==
    LET c1 == <<Call("DeselectAllCasesAndCombosForOutput", "", "", <<>>)>>
        c2 == IF Truthy(load_cases)
              THEN Append(c1, Call("SetLoadCasesSelectedForDisplay", "", "", load_cases.list))
              ELSE c1
        cases2 == IF Truthy(load_cases) THEN Range(load_cases.list) ELSE {}
        c3 == IF Truthy(load_combinations)
              THEN Append(c2, Call("SetLoadCombinationsSelectedForDisplay", "", "",
                                   load_combinations.list))
              ELSE c2
        combos3 == IF Truthy(load_combinations) THEN Range(load_combinations.list) ELSE {}
    IN IF fault = "DeselectAllCasesAndCombosForOutput"
       THEN [calls |-> <<Raised(c1[1], "COMError")>>, ok |-> FALSE,
             cases |-> cases, combos |-> combos]
       ELSE IF Truthy(load_cases) /\ fault = "SetLoadCasesSelectedForDisplay"
       THEN [calls |-> Append(c1, Raised(c2[2], "COMError")), ok |-> FALSE,
             cases |-> {}, combos |-> {}]
       ELSE IF Truthy(load_combinations) /\ fault = "SetLoadCombinationsSelectedForDisplay"
       THEN [calls |-> Append(c2, Raised(c3[Len(c3)], "COMError")), ok |-> FALSE,
             cases |-> cases2, combos |-> {}]
       ELSE [calls |-> c3, ok |-> TRUE, cases |-> cases2, combos |-> combos3]

\* The typed body with the retrieval issued before the selection.
TypedRetrieval_QueriesFirst(table_key, names, kinds, load_cases, load_combinations, group_name, fault) ==
    LET sel == SelectForOutput(selCases, selCombos, load_cases, load_combinations, fault)
        r == retrieve_table_data(db, table_key, group_name, fault)
        co == CoerceColumns(r.out.df, names, kinds)
    IN [cases |-> sel.cases,
        combos |-> sel.combos,
        calls |-> IF r.out.kind = "raise" THEN r.calls ELSE r.calls \o sel.calls,
        out |-> IF r.out.kind = "raise" THEN r.out
                ELSE IF ~sel.ok THEN Raise("COMError", NoMsg)
                ELSE IF ~co.ok THEN Raise("ValueError", NoMsg)
                ELSE Return(co.df)]

\* The typed body that puts the selection back when the retrieval fails.
TypedRetrieval_Restores(table_key, names, kinds, load_cases, load_combinations, group_name, fault) ==
    LET sel == SelectForOutput(selCases, selCombos, load_cases, load_combinations, fault)
        r == retrieve_table_data(db, table_key, group_name, fault)
        co == CoerceColumns(r.out.df, names, kinds)
        failed == sel.ok /\ r.out.kind = "raise"
    IN [cases |-> IF failed THEN selCases ELSE sel.cases,
        combos |-> IF failed THEN selCombos ELSE sel.combos,
        calls |-> IF sel.ok THEN sel.calls \o r.calls ELSE sel.calls,
        out |-> IF ~sel.ok THEN Raise("COMError", NoMsg)
                ELSE IF r.out.kind = "raise" THEN r.out
                ELSE IF ~co.ok THEN Raise("ValueError", NoMsg)
                ELSE Return(co.df)]

\* The body shared by the four typed operations: selection, retrieval, then
\* the coercion of the columns `names` to `kinds`: [calls, out, cases,
\* combos].  Only the retrieval is inside a try block, so a failing
\* selection call and a failing cast leave as they are.
TypedRetrieval(table_key, names, kinds, load_cases, load_combinations, group_name, fault) ==
    LET sel == SelectForOutput(selCases, selCombos, load_cases, load_combinations, fault)
        r == retrieve_table_data(db, table_key, group_name, fault)
        co == CoerceColumns(r.out.df, names, kinds)
    IN [cases |-> sel.cases,
        combos |-> sel.combos,
        calls |-> IF sel.ok THEN sel.calls \o r.calls ELSE sel.calls,
        out |-> IF ~sel.ok THEN Raise("COMError", NoMsg)
                ELSE IF r.out.kind = "raise" THEN r.out
                ELSE IF ~co.ok THEN Raise("ValueError", NoMsg)
                ELSE Return(co.df)]

\* TableResults.element_forces_frames
element_forces_frames(load_cases, load_combinations, group_name, fault) ==
    LET t == TypedRetrieval(FramesKey,
                            <<"Frame", "P", "V2", "V3", "T", "M2", "M3">>,
                            <<"int", "float", "float", "float", "float", "float", "float">>,
                            load_cases, load_combinations, group_name, fault)
    IN /\ op' = Operation("element_forces_frames", FramesKey, group_name,
                          load_cases, load_combinations)
       /\ selCases' = t.cases
       /\ selCombos' = t.combos
       /\ calls' = t.calls
       /\ result' = t.out
       /\ UNCHANGED <<db, running>>

\* TableResults.joint_displacements
joint_displacements(load_cases, load_combinations, group_name, fault) ==
    LET t == TypedRetrieval(JointsKey,
                            <<"Joint", "U1", "U2", "U3", "R1", "R2", "R3">>,
                            <<"int", "float", "float", "float", "float", "float", "float">>,
                            load_cases, load_combinations, group_name, fault)
    IN /\ op' = Operation("joint_displacements", JointsKey, group_name,
                          load_cases, load_combinations)
       /\ selCases' = t.cases
       /\ selCombos' = t.combos
       /\ calls' = t.calls
       /\ result' = t.out
       /\ UNCHANGED <<db, running>>

\* TableResults.base_reactions
base_reactions(load_cases, load_combinations, group_name, fault) ==
    LET t == TypedRetrieval(ReactionsKey,
                            <<"FX", "FY", "FZ", "MX", "MY", "MZ">>,
                            <<"float", "float", "float", "float", "float", "float">>,
                            load_cases, load_combinations, group_name, fault)
    IN /\ op' = Operation("base_reactions", ReactionsKey, group_name,
                          load_cases, load_combinations)
       /\ selCases' = t.cases
       /\ selCombos' = t.combos
       /\ calls' = t.calls
       /\ result' = t.out
       /\ UNCHANGED <<db, running>>

\* TableResults.element_forces_beams
element_forces_beams(load_cases, load_combinations, group_name, fault) ==
    LET t == TypedRetrieval(BeamsKey, <<>>, <<>>,
                            load_cases, load_combinations, group_name, fault)
    IN /\ op' = Operation("element_forces_beams", BeamsKey, group_name,
                          load_cases, load_combinations)
       /\ selCases' = t.cases
       /\ selCombos' = t.combos
       /\ calls' = t.calls
       /\ result' = t.out
       /\ UNCHANGED <<db, running>>

----------------------------------------------------------------------------
(* core/connection.py and client.py                                        *)

\* The two exception kinds the automation layer raises and the connection
\* functions catch.
ComFailures == {"OSError", "COMError"}

\* class ETABSConnectionError(Exception), class SAP2000ConnectionError(Exception)
ConnectionError(app) ==
    IF app = "ETABS" THEN "ETABSConnectionError" ELSE "SAP2000ConnectionError"

HelperFailedText == "Failed to create {} helper object: {}"
NotRunningText == "Could not connect to running {} instance. Please ensure {} is running and a model is open."
NoObjectText == "Could not get connection to running {} instance. {} may not be running or no model is open."
NotStartedText == "Could not start {} instance: {}"

ConnMsg(text, cause) == Msg(text, {}, cause, {}, {})

\* What the helper's creation can do: succeed, or raise a COM failure.
HelperOutcomes == {"ok"} \cup ComFailures

\* What helper.GetObject can do.  Without a running process it raises a COM
\* failure or returns no object; with one it may also return the object.
GetObjectOutcomes(app) ==
    ComFailures \cup {"None"} \cup (IF app \in running THEN {"object"} ELSE {})

\* What helper.CreateObjectProgID and ApplicationStart can do.
CreateOutcomes == {"object"} \cup ComFailures
StartOutcomes == {"ok"} \cup ComFailures

\* _get_etabs_helper, _get_sap2000_helper: [calls, ok, out].
get_helper(app, h) ==
    LET c == <<Call("CreateObject", app, "", <<>>)>>
    IN IF h \in ComFailures
       THEN [calls |-> <<Raised(c[1], h)>>, ok |-> FALSE,
             out |-> Raise(ConnectionError(app), ConnMsg(HelperFailedText, h))]
       ELSE [calls |-> c, ok |-> TRUE, out |-> NoResult]

\* The attach without the test for no object: the SapModel of None is read.
Attach_NoNoneTest(app, h, g) ==
    LET hp == get_helper(app, h)
        c == Append(hp.calls, Call("GetObject", app, "", <<>>))
    IN IF ~hp.ok THEN hp
       ELSE IF g \in ComFailures
       THEN [calls |-> Append(hp.calls, Raised(c[Len(c)], g)), ok |-> FALSE,
             out |-> Raise(ConnectionError(app), ConnMsg(NotRunningText, g))]
       ELSE IF g = "None"
       THEN [calls |-> c, ok |-> FALSE, out |-> Raise("AttributeError", NoMsg)]
       ELSE [calls |-> c, ok |-> TRUE, out |-> ReturnHandle(app)]

\* The attach shared by connect_to_* and close_*_instance: the helper, then
\* GetObject, then the test for no object: [calls, ok, out].
Attach(app, h, g) ==
    LET hp == get_helper(app, h)
        c == Append(hp.calls, Call("GetObject", app, "", <<>>))
    IN IF ~hp.ok THEN hp
       ELSE IF g \in ComFailures
       THEN [calls |-> Append(hp.calls, Raised(c[Len(c)], g)), ok |-> FALSE,
             out |-> Raise(ConnectionError(app), ConnMsg(NotRunningText, g))]
       ELSE IF g = "None"
       THEN [calls |-> c, ok |-> FALSE,
             out |-> Raise(ConnectionError(app), ConnMsg(NoObjectText, ""))]
       ELSE [calls |-> c, ok |-> TRUE, out |-> ReturnHandle(app)]

\* The connect that starts the application when it finds none.
connect_to_etabs_Starts(h, g) ==
    LET a == Attach("ETABS", h, g)
    IN /\ op' = ConnOperation("connect_to_etabs", "ETABS")
       /\ calls' = IF a.ok \/ h \in ComFailures THEN a.calls
                   ELSE Append(a.calls, Call("ApplicationStart", "ETABS", "", <<>>))
       /\ result' = IF a.ok \/ h \in ComFailures THEN a.out ELSE ReturnHandle("ETABS")
       /\ running' = IF a.ok \/ h \in ComFailures THEN running ELSE running \cup {"ETABS"}
       /\ UNCHANGED <<db, selCases, selCombos>>

\* connect_to_etabs: the SapModel of the object found.
connect_to_etabs(h, g) ==
    LET a == Attach("ETABS", h, g)
    IN /\ op' = ConnOperation("connect_to_etabs", "ETABS")
       /\ calls' = a.calls
       /\ result' = a.out
       /\ UNCHANGED <<db, selCases, selCombos, running>>

\* connect_to_sap2000
connect_to_sap2000(h, g) ==
    LET a == Attach("SAP2000", h, g)
    IN /\ op' = ConnOperation("connect_to_sap2000", "SAP2000")
       /\ calls' = a.calls
       /\ result' = a.out
       /\ UNCHANGED <<db, selCases, selCombos, running>>

\* ETABSClient.from_running_instance: the client wraps the handle that
\* connect_to_etabs returns; a failure of connect_to_etabs propagates.
ETABSClient_from_running_instance(h, g) ==
    LET a == Attach("ETABS", h, g)
    IN /\ op' = ConnOperation("ETABSClient.from_running_instance", "ETABS")
       /\ calls' = a.calls
       /\ result' = a.out
       /\ UNCHANGED <<db, selCases, selCombos, running>>

\* SAPClient.from_running_instance
SAPClient_from_running_instance(h, g) ==
    LET a == Attach("SAP2000", h, g)
    IN /\ op' = ConnOperation("SAPClient.from_running_instance", "SAP2000")
       /\ calls' = a.calls
       /\ result' = a.out
       /\ UNCHANGED <<db, selCases, selCombos, running>>

\* The start with one retry of a failed CreateObjectProgID.
Launch_Retries(app, h, c, s) ==
    LET hp == get_helper(app, h)
        c1 == Append(hp.calls, Call("CreateObjectProgID", app, "", <<>>))
        c2 == Append(c1, Call("ApplicationStart", app, "", <<>>))
    IN IF ~hp.ok THEN hp
       ELSE IF c \in ComFailures
       THEN [calls |-> Append(Append(hp.calls, Raised(c1[Len(c1)], c)), Raised(c1[Len(c1)], c)),
             ok |-> FALSE,
             out |-> Raise(ConnectionError(app), ConnMsg(NotStartedText, c))]
       ELSE IF s \in ComFailures
       THEN [calls |-> Append(c1, Raised(c2[Len(c2)], s)), ok |-> FALSE,
             out |-> Raise(ConnectionError(app), ConnMsg(NotStartedText, s))]
       ELSE [calls |-> c2, ok |-> TRUE, out |-> ReturnHandle(app)]

\* The body of start_etabs and start_sap2000: the helper, then
\* CreateObjectProgID and ApplicationStart in one try block: [calls, ok, out].
Launch(app, h, c, s) ==
    LET hp == get_helper(app, h)
        c1 == Append(hp.calls, Call("CreateObjectProgID", app, "", <<>>))
        c2 == Append(c1, Call("ApplicationStart", app, "", <<>>))
    IN IF ~hp.ok THEN hp
       ELSE IF c \in ComFailures
       THEN [calls |-> Append(hp.calls, Raised(c1[Len(c1)], c)), ok |-> FALSE,
             out |-> Raise(ConnectionError(app), ConnMsg(NotStartedText, c))]
       ELSE IF s \in ComFailures
       THEN [calls |-> Append(c1, Raised(c2[Len(c2)], s)), ok |-> FALSE,
             out |-> Raise(ConnectionError(app), ConnMsg(NotStartedText, s))]
       ELSE [calls |-> c2, ok |-> TRUE, out |-> ReturnHandle(app)]

\* start_etabs
start_etabs(h, c, s) ==
    LET l == Launch("ETABS", h, c, s)
    IN /\ op' = ConnOperation("start_etabs", "ETABS")
       /\ calls' = l.calls
       /\ result' = l.out
       /\ running' = IF l.ok THEN running \cup {"ETABS"} ELSE running
       /\ UNCHANGED <<db, selCases, selCombos>>

\* start_sap2000
start_sap2000(h, c, s) ==
    LET l == Launch("SAP2000", h, c, s)
    IN /\ op' = ConnOperation("start_sap2000", "SAP2000")
       /\ calls' = l.calls
       /\ result' = l.out
       /\ running' = IF l.ok THEN running \cup {"SAP2000"} ELSE running
       /\ UNCHANGED <<db, selCases, selCombos>>

\* ETABSClient.start_new_instance: the client wraps the handle that
\* start_etabs returns; a failure of start_etabs propagates.
ETABSClient_start_new_instance(h, c, s) ==
    LET l == Launch("ETABS", h, c, s)
    IN /\ op' = ConnOperation("ETABSClient.start_new_instance", "ETABS")
       /\ calls' = l.calls
       /\ result' = l.out
       /\ running' = IF l.ok THEN running \cup {"ETABS"} ELSE running
       /\ UNCHANGED <<db, selCases, selCombos>>

\* SAPClient.start_new_instance
SAPClient_start_new_instance(h, c, s) ==
    LET l == Launch("SAP2000", h, c, s)
    IN /\ op' = ConnOperation("SAPClient.start_new_instance", "SAP2000")
       /\ calls' = l.calls
       /\ result' = l.out
       /\ running' = IF l.ok THEN running \cup {"SAP2000"} ELSE running
       /\ UNCHANGED <<db, selCases, selCombos>>

\* close_etabs_instance: attach, then ApplicationExit(False).
close_etabs_instance(h, g) ==
    LET a == Attach("ETABS", h, g)
    IN /\ op' = ConnOperation("close_etabs_instance", "ETABS")
       /\ calls' = IF a.ok THEN Append(a.calls, Call("ApplicationExit", "ETABS", "", <<>>))
                   ELSE a.calls
       /\ result' = IF a.ok THEN Return(EmptyDF) ELSE a.out
       /\ running' = IF a.ok THEN running \ {"ETABS"} ELSE running
       /\ UNCHANGED <<db, selCases, selCombos>>

\* close_sap2000_instance
close_sap2000_instance(h, g) ==
    LET a == Attach("SAP2000", h, g)
    IN /\ op' = ConnOperation("close_sap2000_instance", "SAP2000")
       /\ calls' = IF a.ok THEN Append(a.calls, Call("ApplicationExit", "SAP2000", "", <<>>))
                   ELSE a.calls
       /\ result' = IF a.ok THEN Return(EmptyDF) ELSE a.out
       /\ running' = IF a.ok THEN running \ {"SAP2000"} ELSE running
       /\ UNCHANGED <<db, selCases, selCombos>>

----------------------------------------------------------------------------
(* core/base_client.py                                                     *)

\* Units.kN_m_C, the default of new_file and open_file, and one other
\* member of the enumeration.
DefaultUnits == "kN_m_C"
UnitsValues == {DefaultUnits, "N_mm_C"}

FilePaths == {"model.EDB", "model.sdb", "frame.xlsx"}

\* The return codes of the vendor: 0 for success.
RetCodes == 0..MaxRet

FileCalls == {"InitializeNewModel", "File.OpenFile", "SetPresentUnits"}
FileFaults == {"none"} \cup FileCalls

OpenFailedText == "Failed to open file '{}'. Error code: {}"
UnitsFailedText == "Failed to set units for file '{}'. Error code: {}"

\* The call made on the client: its name, the file and the units given.
FileOperation(name, file_path, units) ==
    [name |-> name, app |-> "", table_key |-> "", group_name |-> "",
     load_cases |-> None, load_combinations |-> None,
     file_path |-> file_path, units |-> units]

\* The vendor call `name` with the argument arg: it raises when it is the
\* fault, and returns the code ret otherwise.
FileCall(name, arg, ret, fault) ==
    IF fault = name THEN Raised(Call(name, arg, "", <<>>), "COMError")
    ELSE Returned(Call(name, arg, "", <<>>), ret)

\* BaseCSIClient.new_file: [calls, out]; r0 is what InitializeNewModel
\* returns.
NewFile(units, r0, fault) ==
    [calls |-> <<FileCall("InitializeNewModel", units, r0, fault)>>,
     out |-> IF fault = "InitializeNewModel" THEN Raise("COMError", NoMsg)
             ELSE ReturnValue(IF r0 = 0 THEN "True" ELSE "False")]

\* BaseCSIClient.new_file
new_file(units, r0, fault) ==
    LET n == NewFile(units, r0, fault)
    IN /\ op' = FileOperation("new_file", "", units)
       /\ calls' = n.calls
       /\ result' = n.out
       /\ UNCHANGED <<db, selCases, selCombos, running>>

\* The open that gives up when InitializeNewModel does not return 0.
open_file_ChecksNew(file_path, units, r0, r1, r2, fault) ==
    LET n == NewFile(DefaultUnits, r0, fault)
        c2 == Append(n.calls, FileCall("File.OpenFile", file_path, r1, fault))
        c3 == Append(c2, FileCall("SetPresentUnits", units, r2, fault))
    IN /\ op' = FileOperation("open_file", file_path, units)
       /\ IF n.out.kind = "raise"
          THEN calls' = n.calls /\ result' = n.out
          ELSE IF r0 # 0
          THEN calls' = n.calls
               /\ result' = Raise("RuntimeError", Msg(OpenFailedText, {file_path}, "", {}, {r0}))
          ELSE IF fault = "File.OpenFile"
          THEN calls' = c2 /\ result' = Raise("COMError", NoMsg)
          ELSE IF r1 # 0
          THEN calls' = c2
               /\ result' = Raise("RuntimeError", Msg(OpenFailedText, {file_path}, "", {}, {r1}))
          ELSE IF fault = "SetPresentUnits"
          THEN calls' = c3 /\ result' = Raise("COMError", NoMsg)
          ELSE IF r2 # 0
          THEN calls' = c3
               /\ result' = Raise("RuntimeError", Msg(UnitsFailedText, {file_path}, "", {}, {r2}))
          ELSE calls' = c3 /\ result' = ReturnValue("True")
       /\ UNCHANGED <<db, selCases, selCombos, running>>

\* BaseCSIClient.open_file: new_file() with the default units and its
\* result dropped, then File.OpenFile(file_path), then
\* SetPresentUnits(units); r0, r1, r2 are what the three calls return.
open_file(file_path, units, r0, r1, r2, fault) ==
    LET n == NewFile(DefaultUnits, r0, fault)
        c2 == Append(n.calls, FileCall("File.OpenFile", file_path, r1, fault))
        c3 == Append(c2, FileCall("SetPresentUnits", units, r2, fault))
    IN /\ op' = FileOperation("open_file", file_path, units)
       /\ IF n.out.kind = "raise"
          THEN calls' = n.calls /\ result' = n.out
          ELSE IF fault = "File.OpenFile"
          THEN calls' = c2 /\ result' = Raise("COMError", NoMsg)
          ELSE IF r1 # 0
          THEN calls' = c2
               /\ result' = Raise("RuntimeError", Msg(OpenFailedText, {file_path}, "", {}, {r1}))
          ELSE IF fault = "SetPresentUnits"
          THEN calls' = c3 /\ result' = Raise("COMError", NoMsg)
          ELSE IF r2 # 0
          THEN calls' = c3
               /\ result' = Raise("RuntimeError", Msg(UnitsFailedText, {file_path}, "", {}, {r2}))
          ELSE calls' = c3 /\ result' = ReturnValue("True")
       /\ UNCHANGED <<db, selCases, selCombos, running>>

----------------------------------------------------------------------------
(* Initial states and specifications.                                      *)

\* The keys of S in the vendor's order.
KeyArray(S) == SelectSeq(KeyOrder, LAMBDA k : k \in S)

\* An analysed model: every table available, one record of two fields.
DefaultDb == [TableKey |-> KeyOrder,
              FieldsKeysIncluded |-> <<"Frame", "P">>,
              NumberRecords |-> 1,
              TableData |-> <<IntText, FracText>>]

ColumnLists == {c \in SeqsUpTo(ColNames, MaxCols) : IsDistinct(c)}

\* Optional filters a caller may give.
CaseFilters == {None} \cup {Some(l) : l \in {s \in SeqsUpTo(LoadCases, 2) : IsDistinct(s)}}
ComboFilters == {None} \cup {Some(l) : l \in {s \in SeqsUpTo(LoadCombos, 1) : IsDistinct(s)}}

InitCall == /\ op = NoOperation
            /\ calls = <<>>
            /\ result = NoResult

\* Connection: any set of vendor processes may be running.
InitConn == /\ db = DefaultDb
            /\ selCases = {} /\ selCombos = {}
            /\ running \in SUBSET Apps
            /\ InitCall

NextConn ==
    \/ \E h \in HelperOutcomes, g \in GetObjectOutcomes("ETABS") : connect_to_etabs(h, g)
    \/ \E h \in HelperOutcomes, g \in GetObjectOutcomes("SAP2000") : connect_to_sap2000(h, g)
    \/ \E h \in HelperOutcomes, g \in GetObjectOutcomes("ETABS") :
          ETABSClient_from_running_instance(h, g)
    \/ \E h \in HelperOutcomes, g \in GetObjectOutcomes("SAP2000") :
          SAPClient_from_running_instance(h, g)
    \/ \E h \in HelperOutcomes, c \in CreateOutcomes, s \in StartOutcomes : start_etabs(h, c, s)
    \/ \E h \in HelperOutcomes, c \in CreateOutcomes, s \in StartOutcomes : start_sap2000(h, c, s)
    \/ \E h \in HelperOutcomes, c \in CreateOutcomes, s \in StartOutcomes :
          ETABSClient_start_new_instance(h, c, s)
    \/ \E h \in HelperOutcomes, c \in CreateOutcomes, s \in StartOutcomes :
          SAPClient_start_new_instance(h, c, s)
    \/ \E h \in HelperOutcomes, g \in GetObjectOutcomes("ETABS") : close_etabs_instance(h, g)
    \/ \E h \in HelperOutcomes, g \in GetObjectOutcomes("SAP2000") : close_sap2000_instance(h, g)

SpecConn == InitConn /\ [][NextConn]_vars

\* Enumeration: the open model offers any set of at most MaxTables tables.
InitAvail == /\ \E S \in SUBSET TableKeys :
                   /\ Cardinality(S) <= MaxTables
                   /\ db = [DefaultDb EXCEPT !.TableKey = KeyArray(S)]
             /\ selCases = {} /\ selCombos = {}
             /\ running = {"ETABS"}
             /\ InitCall

NextAvail ==
    \/ \E k \in TableKeys, g \in GroupNames : get_table(k, g, "none")
    \/ \E g \in GroupNames : element_forces_frames(None, None, g, "none")
    \/ \E g \in GroupNames : joint_displacements(None, None, g, "none")
    \/ \E g \in GroupNames : base_reactions(None, None, g, "none")
    \/ \E g \in GroupNames : element_forces_beams(None, None, g, "none")

SpecAvail == InitAvail /\ [][NextAvail]_vars

\* Files: a client on a running application; every return code of the
\* three vendor calls, and any one of them raising.
InitFile == /\ db = DefaultDb
            /\ selCases = {} /\ selCombos = {}
            /\ running = {"ETABS"}
            /\ InitCall

NextFile ==
    \/ \E u \in UnitsValues, r0 \in RetCodes, f \in {"none", "InitializeNewModel"} :
          new_file(u, r0, f)
    \/ \E p \in FilePaths, u \in UnitsValues, r0, r1, r2 \in RetCodes, f \in FileFaults :
          open_file(p, u, r0, r1, r2, f)

SpecFile == InitFile /\ [][NextFile]_vars

\* Retrieval: the open model offers any set of at most MaxTables tables and
\* answers the table query with any record count from -1 to MaxRows, one
\* field and a flat sequence of at most MaxFlat entries; the enumeration or
\* the table query may raise.
RetrievalFaults == {"none", "GetAvailableTables", "GetTableForDisplayArray"}

InitRetrieve == /\ \E S \in SUBSET TableKeys, r \in -1..MaxRows, n \in 0..MaxFlat :
                      /\ Cardinality(S) <= MaxTables
                      /\ db = [TableKey |-> KeyArray(S),
                               FieldsKeysIncluded |-> <<"Frame">>,
                               NumberRecords |-> r,
                               TableData |-> [i \in 1..n |-> IntText]]
                /\ selCases = {} /\ selCombos = {}
                /\ running = {"ETABS"}
                /\ InitCall

NextRetrieve ==
    \/ \E k \in {FramesKey, "Story Drifts"}, g \in GroupNames, f \in RetrievalFaults :
          get_table(k, g, f)
    \/ \E g \in GroupNames, f \in RetrievalFaults : element_forces_beams(None, None, g, f)
    \/ \E g \in GroupNames, f \in RetrievalFaults : element_forces_frames(None, None, g, f)

SpecRetrieve == InitRetrieve /\ [][NextRetrieve]_vars

\* Selection: any selection may be current, any filter given, and any one
\* vendor call may fail.
InitSelect == /\ db = DefaultDb
              /\ selCases \in SUBSET LoadCases
              /\ selCombos \in SUBSET LoadCombos
              /\ running = {"ETABS"}
              /\ InitCall

NextSelect ==
    \/ \E lc \in CaseFilters, lco \in ComboFilters, f \in Faults :
          element_forces_frames(lc, lco, "", f)
    \/ \E lc \in CaseFilters, lco \in ComboFilters, f \in Faults :
          joint_displacements(lc, lco, "", f)
    \/ \E lc \in CaseFilters, lco \in ComboFilters, f \in Faults :
          base_reactions(lc, lco, "", f)
    \/ \E lc \in CaseFilters, lco \in ComboFilters, f \in Faults :
          element_forces_beams(lc, lco, "", f)

SpecSelect == InitSelect /\ [][NextSelect]_vars

\* Reshaping: the vendor answers with any record count from -1 to MaxRows,
\* any list of at most MaxCols distinct field keys and any flat sequence of
\* at most MaxFlat entries.
InitReshape == /\ \E r \in -1..MaxRows, c \in ColumnLists, flat \in SeqsUpTo(ShapeEntries, MaxFlat) :
                     db = [DefaultDb EXCEPT !.FieldsKeysIncluded = c,
                                            !.NumberRecords = r,
                                            !.TableData = flat]
               /\ selCases = {} /\ selCombos = {}
               /\ running = {"ETABS"}
               /\ InitCall

NextReshape ==
    \/ \E k \in {FramesKey, "Story Drifts"} : get_table(k, "", "none")
    \/ element_forces_frames(None, None, "", "none")
    \/ joint_displacements(None, None, "", "none")
    \/ base_reactions(None, None, "", "none")
    \/ element_forces_beams(None, None, "", "none")

SpecReshape == InitReshape /\ [][NextReshape]_vars

\* Coercion: a well-formed table (flat length = records x fields) of any
\* entries.
InitCoerce == /\ \E r \in 1..MaxRows, c \in ColumnLists :
                    /\ r * Len(c) <= MaxFlat
                    /\ \E flat \in [1..(r * Len(c)) -> Entries] :
                          db = [DefaultDb EXCEPT !.FieldsKeysIncluded = c,
                                                 !.NumberRecords = r,
                                                 !.TableData = flat]
              /\ selCases = {} /\ selCombos = {}
              /\ running = {"ETABS"}
              /\ InitCall

NextCoerce ==
    \/ element_forces_frames(None, None, "", "none")
    \/ joint_displacements(None, None, "", "none")
    \/ base_reactions(None, None, "", "none")

SpecCoerce == InitCoerce /\ [][NextCoerce]_vars

----------------------------------------------------------------------------
(* Properties.                                                             *)

TypedOps == {"element_forces_frames", "joint_displacements", "base_reactions",
             "element_forces_beams"}
TableOps == TypedOps \cup {"get_table"}
\* The operations that return the result of _retrieve_table_data as it is.
RetrievalOps == {"get_table", "element_forces_beams"}
CoercingOps == {"element_forces_frames", "joint_displacements", "base_reactions"}
ConnectOps == {"connect_to_etabs", "connect_to_sap2000",
               "ETABSClient.from_running_instance", "SAPClient.from_running_instance"}
ConnOps == ConnectOps \cup {"start_etabs", "start_sap2000",
                            "close_etabs_instance", "close_sap2000_instance"}
ConnectionErrors == {"ETABSConnectionError", "SAP2000ConnectionError"}

CallNames == {calls[i].name : i \in 1..Len(calls)}
Enumerated == \E i \in 1..Len(calls) : calls[i].name = "GetAvailableTables"
Queried == \E i \in 1..Len(calls) : calls[i].name = "GetTableForDisplayArray"

UnknownTable == op.name \in TableOps /\ Enumerated /\ op.table_key \notin Range(db.TableKey)
FiltersOmitted == op.name \in TypedOps /\ op.load_cases.isNone /\ op.load_combinations.isNone

\* The vendor's answer to the table query of the last call.
RowCount == db.NumberRecords
Fields == db.FieldsKeysIncluded
Flat == db.TableData
WellFormed == RowCount > 0 /\ Len(Flat) = RowCount * Len(Fields)

\* C1 as claimed: whatever the enumeration returns (zero tables included),
\* asking for a table that is not in it fails with a RuntimeError whose
\* message names the table and states the number of known tables.
C1_Original ==
    UnknownTable =>
        /\ result.kind = "raise" /\ result.exc = "RuntimeError"
        /\ op.table_key \in result.msg.key \cup result.msg.causeKey
        /\ result.msg.count = {Len(db.TableKey)}

\* C1 amended: asking for a table that is not in the enumeration fails with
\* a RuntimeError whose message names the table; it states the number of
\* known tables when the enumeration reports at least one table, and says
\* that no tables were found, without a count, when it reports zero.
C1_UnknownTableFails ==
    UnknownTable =>
        /\ result.kind = "raise" /\ result.exc = "RuntimeError"
        /\ op.table_key \in result.msg.key
        /\ ~Queried
        /\ IF Len(db.TableKey) = 0
           THEN result.msg.cause = NoTablesText /\ result.msg.count = {}
           ELSE /\ result.msg.cause = NotFoundText
                /\ result.msg.causeKey = {op.table_key}
                /\ result.msg.count = {Len(db.TableKey)}

C1_Witness ==
    /\ op.name = "base_reactions" /\ UnknownTable /\ Len(db.TableKey) = 2
    /\ result.kind = "raise" /\ result.msg.count = {2}

C3_Shape ==
    (op.name \in RetrievalOps /\ Queried /\ WellFormed) =>
        /\ result.kind = "return"
        /\ NRows(result.df) = RowCount
        /\ \A i \in 1..NRows(result.df) : Len(result.df.rows[i]) = Len(Fields)
        /\ result.df.columns = Fields

C3_Witness ==
    /\ op.name = "get_table" /\ Queried /\ WellFormed
    /\ RowCount = 2 /\ Len(Fields) = 2 /\ result.kind = "return"

C5_EmptyTable ==
    (op.name \in TableOps /\ Queried /\ RowCount <= 0) => result = Return(EmptyDF)

C5_Witness ==
    /\ op.name = "element_forces_frames" /\ Queried /\ RowCount = -1
    /\ Len(Fields) = 2 /\ Len(Flat) = 4 /\ result = Return(EmptyDF)

\* The entry of the vendor's flat sequence laid out at row i, column j.
FlatAt(i, j) == Flat[(i - 1) * Len(Fields) + j]

\* The designated numeric columns of the coercing operations.
Designated(name) ==
    IF name = "element_forces_frames" THEN {"Frame", "P", "V2", "V3", "T", "M2", "M3"}
    ELSE IF name = "joint_displacements" THEN {"Joint", "U1", "U2", "U3", "R1", "R2", "R3"}
    ELSE IF name = "base_reactions" THEN {"FX", "FY", "FZ", "MX", "MY", "MZ"}
    ELSE {}

\* C6 as claimed: in the three coercing operations the coercion never
\* raises, an entry of a designated column that does not parse as a number
\* becomes zero, and one that parses keeps its numeric value.
C6_Coercion ==
    (op.name \in CoercingOps /\ Queried /\ WellFormed) =>
        /\ result.kind = "return"
        /\ \A i \in 1..RowCount, j \in 1..Len(Fields) :
              Fields[j] \in Designated(op.name) =>
                 LET x == to_numeric(StrCell(FlatAt(i, j)))
                     cell == result.df.rows[i][j]
                 IN /\ cell.k \in {"int", "float"}
                    /\ IF x.nan THEN cell.v = 0 /\ cell.inf = 0
                       ELSE cell.v = x.v /\ cell.inf = x.inf

\* C7: with no vendor process running, connecting ends by raising the
\* connection error of the application, however the automation layer
\* reports the absence; no handle is returned and no other error raised.
C7_NoProcess ==
    (op.name \in ConnectOps /\ op.app \notin running) =>
        /\ result.kind = "raise"
        /\ result.exc = (IF op.app = "ETABS" THEN "ETABSConnectionError"
                         ELSE "SAP2000ConnectionError")
        /\ result.handle = NoHandle

C7_Witness ==
    /\ op.name = "SAPClient.from_running_instance" /\ running = {}
    /\ result.kind = "raise" /\ result.msg.text = NoObjectText

\* C8 as claimed: after a typed operation called with load_cases = None
\* every load case is selected, and with load_combinations = None every
\* load combination is selected.
C8_AllSelected ==
    (op.name \in TypedOps /\ result.kind = "return") =>
        /\ op.load_cases.isNone => selCases = LoadCases
        /\ op.load_combinations.isNone => selCombos = LoadCombos

\* A cell left without a value in a returned table.
PartlyFilled(df) ==
    \E i \in 1..NRows(df) : \E j \in 1..Len(df.rows[i]) : df.rows[i][j] = NoneCell

\* C9 as claimed: a connection operation fails only with a connection
\* error, a table operation fails only with a RuntimeError, the two kinds
\* are distinct, and no table operation returns a partly filled table.
C9_TwoKinds ==
    /\ ConnectionErrors \cap {"RuntimeError"} = {}
    /\ (op.name \in ConnOps /\ result.kind = "raise") => result.exc \in ConnectionErrors
    /\ (op.name \in TableOps /\ result.kind = "raise") => result.exc = "RuntimeError"
    /\ (op.name \in TableOps /\ result.kind = "return") => ~PartlyFilled(result.df)

\* C10: for a vendor answer with row_count = r > 0, n columns and r x n flat
\* values, the cell at row i, column j of the result is the flat value at
\* position i x n + j (counted from 0), and column j has the j-th name.
C10_RowMajor ==
    (op.name \in RetrievalOps /\ Queried /\ WellFormed) =>
        /\ result.kind = "return"
        /\ \A j \in 1..Len(Fields) : result.df.columns[j] = Fields[j]
        /\ \A i \in 1..RowCount, j \in 1..Len(Fields) :
              result.df.rows[i][j] = StrCell(FlatAt(i, j))

C10_Witness ==
    /\ op.name = "element_forces_beams" /\ Queried /\ WellFormed
    /\ RowCount = 2 /\ Len(Fields) = 2
    /\ Flat = <<LabelText, IntText, IntText, LabelText>>
    /\ result.kind = "return"


----------------------------------------------------------------------------
(* Connection: one attempt, and no process started by connecting.          *)

StartOps == {"start_etabs", "start_sap2000",
             "ETABSClient.start_new_instance", "SAPClient.start_new_instance"}

AutomationCalls == {"CreateObject", "GetObject", "CreateObjectProgID", "ApplicationStart"}

\* The number of calls of the given name in the log of the last operation.
Issued(name) == Cardinality({i \in 1..Len(calls) : calls[i].name = name})

\* The positions of the calls that raised.
RaisedAt == {i \in 1..Len(calls) : calls[i].raised # ""}

\* C11: a connect or start operation issues each automation call (the
\* helper's CreateObject, GetObject, CreateObjectProgID, ApplicationStart) at
\* most once; a call that raised is the last call of the operation, and the
\* operation then raised the connection error of its application.
C11_SingleAttempt ==
    op.name \in ConnectOps \cup StartOps =>
        /\ \A n \in AutomationCalls : Issued(n) <= 1
        /\ op.name \in ConnectOps => Issued("CreateObjectProgID") + Issued("ApplicationStart") = 0
        /\ op.name \in StartOps => Issued("GetObject") = 0
        /\ \A i \in RaisedAt :
              /\ i = Len(calls)
              /\ result.kind = "raise"
              /\ result.exc = (IF op.app = "ETABS" THEN "ETABSConnectionError"
                               ELSE "SAP2000ConnectionError")

\* A start whose CreateObjectProgID raised: nothing was issued after it.
C11_Witness ==
    /\ op.name = "start_etabs"
    /\ Len(calls) = 2
    /\ calls[2].name = "CreateObjectProgID"
    /\ calls[2].raised = "COMError"
    /\ result.kind = "raise"


\* C12: a connect operation, whether it returns or raises, leaves the set of
\* running vendor processes as it was; a step after which a process runs
\* that did not run before is a step of a start operation.
C12_ConnectStartsNothing ==
    [][/\ op'.name \in ConnectOps => running' = running
       /\ ~(running' \subseteq running) => op'.name \in StartOps]_vars

\* A connect that found no ETABS process and raised; none runs afterwards.
C12_Witness ==
    /\ op.name = "connect_to_etabs"
    /\ result.kind = "raise"
    /\ Issued("GetObject") = 1
    /\ "ETABS" \notin running


----------------------------------------------------------------------------
(* Typed operations: the order of the vendor calls.                        *)

\* The positions of the calls of the given name.
Pos(name) == {i \in 1..Len(calls) : calls[i].name = name}

\* A list was given for the filter, and it is not empty.
Given(filter) == ~filter.isNone /\ filter.list # <<>>

\* The selection call `name` of the filter: issued at most once and only
\* with the list given; for a list given, issued before every table query,
\* and missing only when an earlier call of the operation raised.
SelectionIssued(name, filter) ==
    /\ Issued(name) <= 1
    /\ \A i \in Pos(name) : Given(filter) /\ calls[i].list = filter.list
    /\ Given(filter) =>
          /\ \A q \in Pos("GetTableForDisplayArray") : \E i \in Pos(name) : i < q
          /\ Issued(name) = 0 =>
                /\ RaisedAt = {Len(calls)}
                /\ calls[Len(calls)].name \in {"DeselectAllCasesAndCombosForOutput",
                                                "SetLoadCasesSelectedForDisplay"}
                /\ calls[Len(calls)].name # name
                /\ result.kind = "raise"

\* C13: a typed operation given a non-empty list of load cases or of load
\* combinations issues the selection call of that list exactly once, with
\* the list as given, before the table query; the query is never issued
\* before a requested selection.  (The selection call is missing only when
\* an earlier vendor call of the operation raised and ended it.)
C13_SelectionBeforeQuery ==
    op.name \in TypedOps =>
        /\ SelectionIssued("SetLoadCasesSelectedForDisplay", op.load_cases)
        /\ SelectionIssued("SetLoadCombinationsSelectedForDisplay", op.load_combinations)
        /\ \A i \in Pos("SetLoadCasesSelectedForDisplay"),
              j \in Pos("SetLoadCombinationsSelectedForDisplay") : i < j

\* Both lists given, both selection calls issued, the table returned.
C13_Witness ==
    /\ op.name = "joint_displacements"
    /\ op.load_cases = Some(<<"LIVE", "DEAD">>)
    /\ op.load_combinations = Some(<<"COMB1">>)
    /\ Issued("SetLoadCasesSelectedForDisplay") = 1
    /\ Issued("SetLoadCombinationsSelectedForDisplay") = 1
    /\ Issued("GetTableForDisplayArray") = 1
    /\ result.kind = "return"


\* The selection that the filter asks for: the names of the list given, or
\* nothing.
Asked(filter) == IF Given(filter) THEN Range(filter.list) ELSE {}

\* C15: every typed operation issues DeselectAllCasesAndCombosForOutput
\* exactly once, as its first vendor call, before any selection call and
\* before the enumeration of the tables; when the retrieval then fails (the
\* RuntimeError of _retrieve_table_data) the vendor's output selection is the
\* one the operation made, not the one that was there before the call.
C15_DeselectFirst ==
    op.name \in TypedOps =>
        /\ Pos("DeselectAllCasesAndCombosForOutput") = {1}
        /\ result.exc = "RuntimeError" =>
              /\ Enumerated
              /\ selCases = Asked(op.load_cases)
              /\ selCombos = Asked(op.load_combinations)

\* The table query raised after the selection of DEAD: the retrieval
\* failed and DEAD is what is selected.
C15_Witness ==
    /\ op.name = "element_forces_frames"
    /\ op.load_cases = Some(<<"DEAD">>)
    /\ op.load_combinations = None
    /\ calls[1].name = "DeselectAllCasesAndCombosForOutput"
    /\ result.exc = "RuntimeError"
    /\ selCases = {"DEAD"}
    /\ selCombos = {}


\* The columns a typed operation coerces, and the kinds it casts them to.
CoercedColumns(name) ==
    IF name = "element_forces_frames"
    THEN [names |-> <<"Frame", "P", "V2", "V3", "T", "M2", "M3">>,
          kinds |-> <<"int", "float", "float", "float", "float", "float", "float">>]
    ELSE IF name = "joint_displacements"
    THEN [names |-> <<"Joint", "U1", "U2", "U3", "R1", "R2", "R3">>,
          kinds |-> <<"int", "float", "float", "float", "float", "float", "float">>]
    ELSE IF name = "base_reactions"
    THEN [names |-> <<"FX", "FY", "FZ", "MX", "MY", "MZ">>,
          kinds |-> <<"float", "float", "float", "float", "float", "float">>]
    ELSE [names |-> <<>>, kinds |-> <<>>]

\* The filter with the empty list taken for an omitted one.
OmitEmpty(filter) == IF filter.list = <<>> THEN None ELSE filter

\* The vendor call that raised in the log, "none" when none did.
FaultOf(log) ==
    IF log # <<>> /\ log[Len(log)].raised # "" THEN log[Len(log)].name ELSE "none"

----------------------------------------------------------------------------
(* Retrieval: enumeration before the query, and one kind of failure.       *)

\* C14: a retrieval enumerates the available tables before it asks for a
\* table: GetTableForDisplayArray is issued at most once, after an
\* enumeration that returned, only for a name the enumeration returned, and
\* with the table name and the group name of the caller unchanged; for a
\* name the enumeration did not return it is not issued.
C14_EnumerateFirst ==
    op.name \in TableOps =>
        /\ Pos("GetAvailableTables") = {Len(calls) - Issued("GetTableForDisplayArray")}
        /\ \A q \in Pos("GetTableForDisplayArray") :
              /\ q = Len(calls)
              /\ \E e \in Pos("GetAvailableTables") : e < q /\ calls[e].raised = ""
              /\ calls[q].key = op.table_key
              /\ calls[q].group = op.group_name
              /\ \E i \in 1..Len(db.TableKey) : db.TableKey[i] = op.table_key
        /\ (\A i \in 1..Len(db.TableKey) : db.TableKey[i] # op.table_key)
              => Issued("GetTableForDisplayArray") = 0

\* A table that is available, asked for with a group name: enumeration,
\* then the query with that name and group.
C14_Witness ==
    /\ op.name = "get_table"
    /\ op.table_key = "Story Drifts"
    /\ op.group_name = "Columns"
    /\ Len(calls) = 2
    /\ calls[1].name = "GetAvailableTables"
    /\ calls[2].name = "GetTableForDisplayArray"
    /\ calls[2].key = "Story Drifts"
    /\ calls[2].group = "Columns"
    /\ result.kind = "return"

\* C16: whatever fails inside the retrieval (no table offered, a name that
\* is not offered, the enumeration or the table query raising, the reshaping
\* raising), get_table raises a RuntimeError whose message is "Failed to
\* retrieve table '<table_key>': <cause>" with the table name of the call; no
\* other kind of exception leaves get_table.
C16_AlwaysRuntimeError ==
    (op.name = "get_table" /\ result.kind = "raise") =>
        /\ result.exc = "RuntimeError"
        /\ result.msg.text = "Failed to retrieve table '{}': {}"
        /\ result.msg.key = {op.table_key}
        /\ result.msg.cause \in {"COMError", "ValueError",
                                  "No tables were found in the open model.",
                                  "Failed to retrieve '{}'. It was not found amongst the {} tables."}

\* The reshaping raised: more values in a row than field keys.
C16_Witness ==
    /\ op.name = "get_table"
    /\ Issued("GetTableForDisplayArray") = 1
    /\ RaisedAt = {}
    /\ result.exc = "RuntimeError"
    /\ result.msg.cause = "ValueError"


----------------------------------------------------------------------------
(* Files: the three calls of open_file.                                    *)

\* C17: open_file issues InitializeNewModel, File.OpenFile and
\* SetPresentUnits in that order, each at most once; File.OpenFile is
\* issued whatever code InitializeNewModel returned; SetPresentUnits is
\* issued only after File.OpenFile returned 0; open_file returns (True) only
\* when File.OpenFile and SetPresentUnits both returned 0; a code other than
\* 0 from either raises a RuntimeError carrying the file path and that code,
\* and no call follows it.
C17_OpenFileOrder ==
    op.name = "open_file" =>
        /\ Len(calls) \in 1..3
        /\ calls[1].name = "InitializeNewModel"
        /\ Len(calls) >= 2 => calls[2].name = "File.OpenFile" /\ calls[2].key = op.file_path
        /\ Len(calls) = 3 => /\ calls[3].name = "SetPresentUnits"
                             /\ calls[3].key = op.units
                             /\ calls[2].ret = 0
                             /\ calls[2].raised = ""
        /\ calls[1].raised = "" => Len(calls) >= 2
        /\ ~(Len(calls) = 2 /\ calls[2].raised = "" /\ calls[2].ret = 0)
        /\ result.kind = "return" =>
              /\ result.value = "True"
              /\ Len(calls) = 3
              /\ \A i \in 2..3 : calls[i].ret = 0 /\ calls[i].raised = ""
        /\ \A i \in 2..Len(calls) :
              (calls[i].raised = "" /\ calls[i].ret # 0) =>
                  /\ i = Len(calls)
                  /\ result.kind = "raise"
                  /\ result.exc = "RuntimeError"
                  /\ result.msg.key = {op.file_path}
                  /\ result.msg.count = {calls[i].ret}

\* InitializeNewModel returned a code other than 0, and the file was
\* opened and its units set all the same.
C17_Witness ==
    /\ op.name = "open_file"
    /\ Len(calls) = 3
    /\ calls[1].ret # 0
    /\ calls[1].raised = ""
    /\ calls[3].name = "SetPresentUnits"
    /\ result.kind = "return"
    /\ result.value = "True"

====
